---- MODULE Spec2Model ----
(***************************************************************************)
(* Interaction model of the FieldPill widget                               *)
(* (src/src/components/FieldList/FieldPill.tsx).                           *)
(*                                                                         *)
(* Two pill instances render two entries of the field list.  Every DOM     *)
(* event handler of the component is one action; an event is dispatched at *)
(* a target (the pill's root div or the nested toggle button) and bubbles  *)
(* to the root unless a handler on the button stops it.  The shared state  *)
(* container (useApp) is modelled by selectedField and fields.             *)
(***************************************************************************)
EXTENDS Integers, Sequences, FiniteSets, TLC

\* Longest field name (in characters) drawn by PayloadSpec.
MaxNameLen == 2

\* The pill instances: two entries of the rendered field list.
Pills == {"A", "B"}

\* Characters a field name is made of: a plain letter, the double quote and
\* the backslash (the two characters JSON.stringify has to escape).
Alphabet == {"a", "\"", "\\"}

FieldType == {"quantitative", "nominal", "ordinal", "temporal"}

PointerKind == {"mouse", "pen", "touch", "unknown"}

\* Values the platform reports in PointerEvent.pointerType: the three
\* standard kinds and, for a device it cannot classify, the empty string.
ReportedPointerTypes == {"mouse", "pen", "touch", ""}

\* Where inside a pill an event is dispatched.
Targets == {"pill", "button"}

TYPE_COLORS ==
  [t \in FieldType |->
     CASE t = "quantitative" -> "var(--color-quantitative)"
       [] t = "nominal"      -> "var(--color-nominal)"
       [] t = "ordinal"      -> "var(--color-ordinal)"
       [] t = "temporal"     -> "var(--color-temporal)"]

\* Variant: the label table without an entry for temporal.
TYPE_LABELS_NoTemporal ==
  [quantitative |-> "Q", nominal |-> "N", ordinal |-> "O"]

TYPE_LABELS ==
  [t \in FieldType |->
     CASE t = "quantitative" -> "Q"
       [] t = "nominal"      -> "N"
       [] t = "ordinal"      -> "O"
       [] t = "temporal"     -> "T"]

RECURSIVE SeqsUpTo(_)
SeqsUpTo(n) ==
  IF n = 0 THEN {<<>>}
  ELSE LET shorter == SeqsUpTo(n - 1)
       IN  shorter \cup {Append(s, c) : s \in shorter, c \in Alphabet}

\* Field names: non-empty character sequences.
Names == SeqsUpTo(MaxNameLen) \ {<<>>}

DetectedField == [name : Names, type : FieldType]

\* state.selectedField when no field is selected (null).
NoField == [name |-> <<>>, type |-> "none"]

\* The names of the two list entries under Spec (unique within the list).
PillName == [p \in Pills |-> IF p = "A" THEN <<"a">> ELSE <<"\"", "\\">>]

VARIABLES
  fields,              \* the field list: the field prop of each instance
  selectedField,       \* state.selectedField of the shared container
  mounted,             \* whether the instance is in the rendered list
  isHovered,           \* useState(false), per instance
  isDragging,          \* useState(false), per instance
  lastPointerTypeRef,  \* useRef('unknown').current, per instance
  dataTransfer,        \* e.dataTransfer as the last event's handler left it
  lastDown,            \* history: pointerType reported by the last
                       \* pointer-down inside the instance since its mount
  lastEvent,           \* history: the last event delivered
  gesture              \* history: the pointer gesture in progress
                       \* (maintained under GestureSpec only)

vars == <<fields, selectedField, mounted, isHovered, isDragging,
          lastPointerTypeRef, dataTransfer, lastDown, lastEvent, gesture>>

----------------------------------------------------------------------------
\* The shared state container (useApp).

selectField(field) == field

clearSelectedField == NoField

FlipType(t) ==
  CASE t = "nominal" -> "ordinal"
    [] t = "ordinal" -> "nominal"
    [] OTHER         -> t

toggleFieldType(fs, name) ==
  [p \in DOMAIN fs |->
     IF fs[p].name = name
       THEN [name |-> fs[p].name, type |-> FlipType(fs[p].type)]
       ELSE fs[p]]

----------------------------------------------------------------------------
\* JSON.stringify of a field descriptor, as a sequence of characters.  The
\* property keys and the type literal are kept as single chunks (they hold
\* no character that needs escaping); the name is escaped character by
\* character.

EscapeChar(c) ==
  IF c = "\"" \/ c = "\\" THEN <<"\\", c>> ELSE <<c>>

RECURSIVE EscapeString(_)
EscapeString(s) ==
  IF s = <<>> THEN <<>> ELSE EscapeChar(Head(s)) \o EscapeString(Tail(s))

Quote(s) == <<"\"">> \o EscapeString(s) \o <<"\"">>

\* Variant: the payload built by concatenation, the name not escaped.
JSONStringify_NoEscape(field) ==
  <<"{">> \o Quote(<<"name">>) \o <<":">>
          \o (<<"\"">> \o field.name \o <<"\"">>)
          \o <<",">> \o Quote(<<"type">>) \o <<":">> \o Quote(<<field.type>>)
          \o <<"}">>

JSONStringify(field) ==
  <<"{">> \o Quote(<<"name">>) \o <<":">> \o Quote(field.name)
          \o <<",">> \o Quote(<<"type">>) \o <<":">> \o Quote(<<field.type>>)
          \o <<"}">>

\* JSON.parse restricted to objects of string-valued properties, as a drop
\* target applies it to the payload.  ParseString reads a quoted string that
\* starts at position i and returns its value and the position after it.
ParseError == [name |-> <<>>, type |-> "SyntaxError"]

RECURSIVE ParseChars(_, _, _)
ParseChars(text, i, acc) ==
  IF i > Len(text) THEN [ok |-> FALSE, value |-> acc, next |-> i]
  ELSE IF text[i] = "\"" THEN [ok |-> TRUE, value |-> acc, next |-> i + 1]
  ELSE IF text[i] = "\\"
         THEN IF i + 1 > Len(text)
                THEN [ok |-> FALSE, value |-> acc, next |-> i]
                ELSE ParseChars(text, i + 2, Append(acc, text[i + 1]))
  ELSE ParseChars(text, i + 1, Append(acc, text[i]))

ParseString(text, i) ==
  IF i > Len(text) \/ text[i] # "\""
    THEN [ok |-> FALSE, value |-> <<>>, next |-> i]
    ELSE ParseChars(text, i + 1, <<>>)

Expect(text, i, c) == i <= Len(text) /\ text[i] = c

JSONParse(text) ==
  LET k1 == ParseString(text, 2)
      v1 == ParseString(text, k1.next + 1)
      k2 == ParseString(text, v1.next + 1)
      v2 == ParseString(text, k2.next + 1)
  IN  IF /\ Expect(text, 1, "{")
         /\ k1.ok /\ k1.value = <<"name">> /\ Expect(text, k1.next, ":")
         /\ v1.ok /\ Expect(text, v1.next, ",")
         /\ k2.ok /\ k2.value = <<"type">> /\ Expect(text, k2.next, ":")
         /\ v2.ok /\ Len(v2.value) = 1 /\ Expect(text, v2.next, "}")
         /\ v2.next = Len(text)
        THEN [name |-> v1.value, type |-> v2.value[1]]
        ELSE ParseError

\* A DataTransfer before any setData: no format, effectAllowed at its
\* platform default.
EmptyTransfer ==
  [format |-> "", data |-> <<>>, effectAllowed |-> "uninitialized"]

----------------------------------------------------------------------------
\* The component.

\* Variant: the hover flag starts set.
InitialHovered_Set == TRUE

\* useState(false), useState(false), useRef('unknown')
InitialHovered == FALSE
InitialDragging == FALSE
InitialPointerType == "unknown"

\* Variant: the selected descriptor compared as a whole, type included.
isSelected_ByDescriptor(i) == selectedField = fields[i]

isSelected(i) ==
  selectedField # NoField /\ selectedField.name = fields[i].name

NormalizePointerType(t) ==
  IF t = "mouse" \/ t = "pen" \/ t = "touch" THEN t ELSE "unknown"

\* Variant: the reported type stored as it is.
handlePointerDown_Raw(t) == t

\* handlePointerDown: the value stored in lastPointerTypeRef.current.
handlePointerDown(t) == NormalizePointerType(t)

\* Variant: a touch click always selects, never clears.
handleClick_NeverClears(i) ==
  IF lastPointerTypeRef[i] = "touch"
    THEN selectField(fields[i])
    ELSE selectedField

\* Variant: only a mouse click is left out of the selection toggle.
handleClick_AllButMouse(i) ==
  IF lastPointerTypeRef[i] # "mouse"
    THEN IF isSelected(i) THEN clearSelectedField ELSE selectField(fields[i])
    ELSE selectedField

\* Variant: a touch click clears whenever any field is selected.
handleClick_ClearsAnySelection(i) ==
  IF lastPointerTypeRef[i] = "touch"
    THEN IF selectedField # NoField
           THEN clearSelectedField
           ELSE selectField(fields[i])
    ELSE selectedField

\* handleClick: the value of the shared selection after it ran.
handleClick(i) ==
  IF lastPointerTypeRef[i] = "touch"
    THEN IF isSelected(i) THEN clearSelectedField ELSE selectField(fields[i])
    ELSE selectedField

\* handleDragStart: the DataTransfer after setData and effectAllowed, and
\* the value given to setIsDragging.
handleDragStart(i) ==
  [transfer |-> [format |-> "application/json",
                 data |-> JSONStringify(fields[i]),
                 effectAllowed |-> "copy"],
   dragging |-> TRUE]

\* Variant: drag-end leaves the flag set.
handleDragEnd_StaysSet == TRUE

\* handleDragEnd: the value given to setIsDragging.
handleDragEnd == FALSE

\* Variant: every type but quantitative can be toggled.
canToggle_NotQuantitative(i) == fields[i].type # "quantitative"

canToggle(i) == fields[i].type = "ordinal" \/ fields[i].type = "nominal"

\* {canToggle && isHovered && (<button ...>)}
ToggleRendered(i) == mounted[i] /\ canToggle(i) /\ isHovered[i]

\* Variant: the hovered background takes precedence over the selected one.
BackgroundColor_HoverFirst(i) ==
  IF isHovered[i] THEN "var(--color-bg-tertiary)"
  ELSE IF isSelected(i) THEN "var(--color-accent-glow)"
  ELSE "var(--color-bg-elevated)"

\* style.backgroundColor of the root div.
BackgroundColor(i) ==
  IF isSelected(i) THEN "var(--color-accent-glow)"
  ELSE IF isHovered[i] THEN "var(--color-bg-tertiary)"
  ELSE "var(--color-bg-elevated)"

\* The colour in style.border of the root div.
BorderColor(i) ==
  IF isSelected(i) THEN "var(--color-accent)"
  ELSE IF isHovered[i] THEN "var(--color-border-hover)"
  ELSE "var(--color-border)"

\* const color = TYPE_COLORS[field.type]; undefined for a missing key.
Color(i) ==
  IF fields[i].type \in DOMAIN TYPE_COLORS
    THEN TYPE_COLORS[fields[i].type]
    ELSE "undefined"

\* {TYPE_LABELS[field.type]}; undefined for a missing key.
Label(i) ==
  IF fields[i].type \in DOMAIN TYPE_LABELS
    THEN TYPE_LABELS[fields[i].type]
    ELSE "undefined"

\* Variant: the button stops mousedown only.
ButtonStopsPropagation_MouseDownOnly(ev) == ev = "mousedown"

\* The button's own handlers call e.stopPropagation() for click and
\* mousedown; every other event bubbles on to the root div.
ButtonStopsPropagation(ev) == ev = "click" \/ ev = "mousedown"

\* Whether the root div's handler for ev runs for an event at target.
ReachesRoot(ev, target) ==
  target = "pill" \/ ~ButtonStopsPropagation(ev)

\* An event can be dispatched at a target only while the target is rendered.
Rendered(i, target) ==
  IF target = "button" THEN ToggleRendered(i) ELSE mounted[i]

\* Variant: the button's onClick does not call the mutator.
ButtonOnClick_NoCall(i) == fields

\* The button's onClick, after stopPropagation: the field list it requests.
ButtonOnClick(i) == toggleFieldType(fields, fields[i].name)

Event(type, i, target) == [type |-> type, pill |-> i, target |-> target]

NoEvent == Event("none", "none", "none")

----------------------------------------------------------------------------
\* Actions: one per event delivered to an instance.

\* Variant: one recorded pointer kind shared by all instances.
PointerDown_SharedRef(i, target, t) ==
  /\ Rendered(i, target)
  /\ lastPointerTypeRef' =
       IF ReachesRoot("pointerdown", target)
         THEN [p \in Pills |-> handlePointerDown(t)]
         ELSE lastPointerTypeRef
  /\ lastDown' = [lastDown EXCEPT ![i] = t]
  /\ lastEvent' = Event("pointerdown", i, target)
  /\ dataTransfer' = EmptyTransfer
  /\ UNCHANGED <<fields, selectedField, mounted, isHovered, isDragging>>

PointerDown(i, target, t) ==
  /\ Rendered(i, target)
  /\ lastPointerTypeRef' =
       IF ReachesRoot("pointerdown", target)
         THEN [lastPointerTypeRef EXCEPT ![i] = handlePointerDown(t)]
         ELSE lastPointerTypeRef
  /\ lastDown' = [lastDown EXCEPT ![i] = t]
  /\ lastEvent' = Event("pointerdown", i, target)
  /\ dataTransfer' = EmptyTransfer
  /\ UNCHANGED <<fields, selectedField, mounted, isHovered, isDragging>>

\* The mousedown of a press on the toggle button: the button's handler only
\* stops its propagation (the root div has no mousedown handler).
MouseDown(i) ==
  /\ Rendered(i, "button")
  /\ lastEvent' = Event("mousedown", i, "button")
  /\ dataTransfer' = EmptyTransfer
  /\ UNCHANGED <<fields, selectedField, mounted, isHovered, isDragging,
                 lastPointerTypeRef, lastDown>>

\* Variant: the click handler consumes the recorded pointer kind.
Click_ResetsPointerType(i, target) ==
  /\ Rendered(i, target)
  /\ fields' = IF target = "button" THEN ButtonOnClick(i) ELSE fields
  /\ selectedField' = IF ReachesRoot("click", target)
                        THEN handleClick(i)
                        ELSE selectedField
  /\ lastPointerTypeRef' =
       IF ReachesRoot("click", target)
         THEN [lastPointerTypeRef EXCEPT ![i] = "unknown"]
         ELSE lastPointerTypeRef
  /\ lastEvent' = Event("click", i, target)
  /\ dataTransfer' = EmptyTransfer
  /\ UNCHANGED <<mounted, isHovered, isDragging, lastDown>>

\* Variant: the type toggle wired to the root div's click as well.
Click_TogglesOnPillClick(i, target) ==
  /\ Rendered(i, target)
  /\ fields' = ButtonOnClick(i)
  /\ selectedField' = IF ReachesRoot("click", target)
                        THEN handleClick(i)
                        ELSE selectedField
  /\ lastEvent' = Event("click", i, target)
  /\ dataTransfer' = EmptyTransfer
  /\ UNCHANGED <<mounted, isHovered, isDragging, lastPointerTypeRef,
                 lastDown>>

Click(i, target) ==
  /\ Rendered(i, target)
  /\ fields' = IF target = "button"
                 THEN ButtonOnClick(i)
                 ELSE fields
  /\ selectedField' = IF ReachesRoot("click", target)
                        THEN handleClick(i)
                        ELSE selectedField
  /\ lastEvent' = Event("click", i, target)
  /\ dataTransfer' = EmptyTransfer
  /\ UNCHANGED <<mounted, isHovered, isDragging, lastPointerTypeRef,
                 lastDown>>

\* Variant: drag-start also makes the dragged field the shared selection.
DragStart_SelectsField(i) ==
  /\ mounted[i]
  /\ dataTransfer' = handleDragStart(i).transfer
  /\ isDragging' = [isDragging EXCEPT ![i] = handleDragStart(i).dragging]
  /\ selectedField' = selectField(fields[i])
  /\ lastEvent' = Event("dragstart", i, "pill")
  /\ UNCHANGED <<fields, mounted, isHovered, lastPointerTypeRef, lastDown>>

DragStart(i) ==
  /\ mounted[i]
  /\ dataTransfer' = handleDragStart(i).transfer
  /\ isDragging' = [isDragging EXCEPT ![i] = handleDragStart(i).dragging]
  /\ lastEvent' = Event("dragstart", i, "pill")
  /\ UNCHANGED <<fields, selectedField, mounted, isHovered,
                 lastPointerTypeRef, lastDown>>

\* Variant: drag-end also clears the shared selection.
DragEnd_ClearsSelection(i, accepted) ==
  /\ mounted[i]
  /\ isDragging' = [isDragging EXCEPT ![i] = FALSE]
  /\ selectedField' = clearSelectedField
  /\ dataTransfer' = EmptyTransfer
  /\ lastEvent' = Event("dragend", i, "pill")
  /\ UNCHANGED <<fields, mounted, isHovered, lastPointerTypeRef, lastDown>>

\* accepted: whether a drop target took the payload.
DragEnd(i, accepted) ==
  /\ mounted[i]
  /\ isDragging' = [isDragging EXCEPT ![i] = handleDragEnd]
  /\ dataTransfer' = EmptyTransfer
  /\ lastEvent' = Event("dragend", i, "pill")
  /\ UNCHANGED <<fields, selectedField, mounted, isHovered,
                 lastPointerTypeRef, lastDown>>

MouseEnter(i) ==
  /\ mounted[i]
  /\ isHovered' = [isHovered EXCEPT ![i] = TRUE]
  /\ lastEvent' = Event("mouseenter", i, "pill")
  /\ dataTransfer' = EmptyTransfer
  /\ UNCHANGED <<fields, selectedField, mounted, isDragging,
                 lastPointerTypeRef, lastDown>>

\* Variant: mouse-leave sets the hover flag as mouse-enter does.
MouseLeave_SetsHovered(i) ==
  /\ mounted[i]
  /\ isHovered' = [isHovered EXCEPT ![i] = TRUE]
  /\ lastEvent' = Event("mouseleave", i, "pill")
  /\ dataTransfer' = EmptyTransfer
  /\ UNCHANGED <<fields, selectedField, mounted, isDragging,
                 lastPointerTypeRef, lastDown>>

MouseLeave(i) ==
  /\ mounted[i]
  /\ isHovered' = [isHovered EXCEPT ![i] = FALSE]
  /\ lastEvent' = Event("mouseleave", i, "pill")
  /\ dataTransfer' = EmptyTransfer
  /\ UNCHANGED <<fields, selectedField, mounted, isDragging,
                 lastPointerTypeRef, lastDown>>

\* The list re-renders without the field: the instance and its state are
\* destroyed.
Unmount(i) ==
  /\ mounted[i]
  /\ mounted' = [mounted EXCEPT ![i] = FALSE]
  /\ isHovered' = [isHovered EXCEPT ![i] = FALSE]
  /\ isDragging' = [isDragging EXCEPT ![i] = FALSE]
  /\ lastPointerTypeRef' = [lastPointerTypeRef EXCEPT ![i] = "unknown"]
  /\ lastDown' = [lastDown EXCEPT ![i] = "none"]
  /\ lastEvent' = Event("unmount", i, "pill")
  /\ dataTransfer' = EmptyTransfer
  /\ UNCHANGED <<fields, selectedField>>

\* The field enters the rendered list again: a new instance is constructed.
Mount(i) ==
  /\ ~mounted[i]
  /\ mounted' = [mounted EXCEPT ![i] = TRUE]
  /\ isHovered' = [isHovered EXCEPT ![i] = InitialHovered]
  /\ isDragging' = [isDragging EXCEPT ![i] = InitialDragging]
  /\ lastPointerTypeRef' =
       [lastPointerTypeRef EXCEPT ![i] = InitialPointerType]
  /\ lastDown' = [lastDown EXCEPT ![i] = "none"]
  /\ lastEvent' = Event("mount", i, "pill")
  /\ dataTransfer' = EmptyTransfer
  /\ UNCHANGED <<fields, selectedField>>

----------------------------------------------------------------------------
\* The specifications.

InitView ==
  /\ selectedField = NoField
  /\ isHovered = [p \in Pills |-> InitialHovered]
  /\ isDragging = [p \in Pills |-> InitialDragging]
  /\ lastPointerTypeRef = [p \in Pills |-> InitialPointerType]
  /\ dataTransfer = EmptyTransfer
  /\ lastDown = [p \in Pills |-> "none"]
  /\ lastEvent = NoEvent

NoGesture ==
  [phase |-> "idle", pill |-> "none", target |-> "none",
   startSel |-> NoField, dragSet |-> FALSE, dragDone |-> FALSE,
   toggled |-> FALSE]

\* Both instances mounted, names unique within the list, any types.
Init ==
  /\ \E ty \in [Pills -> FieldType] :
       fields = [p \in Pills |-> [name |-> PillName[p], type |-> ty[p]]]
  /\ mounted = [p \in Pills |-> TRUE]
  /\ InitView
  /\ gesture = NoGesture

\* Spec: every handler may run at any time while its target is rendered.
Next ==
  \/ \E i \in Pills, target \in Targets, t \in ReportedPointerTypes :
       PointerDown(i, target, t) /\ UNCHANGED gesture
  \/ \E i \in Pills : MouseDown(i) /\ UNCHANGED gesture
  \/ \E i \in Pills, target \in Targets :
       Click(i, target) /\ UNCHANGED gesture
  \/ \E i \in Pills : DragStart(i) /\ UNCHANGED gesture
  \/ \E i \in Pills, accepted \in BOOLEAN :
       DragEnd(i, accepted) /\ UNCHANGED gesture
  \/ \E i \in Pills : MouseEnter(i) /\ UNCHANGED gesture
  \/ \E i \in Pills : MouseLeave(i) /\ UNCHANGED gesture
  \/ \E i \in Pills : Unmount(i) /\ UNCHANGED gesture
  \/ \E i \in Pills : Mount(i) /\ UNCHANGED gesture

Spec == Init /\ [][Next]_vars

----------------------------------------------------------------------------
\* GestureSpec: the events arrive in the order the platform's input model
\* delivers them for one pointer.  A gesture starts with a pointer-down and
\* lasts until the next one; the press ends either in a click at the pressed
\* target or, for a press on the draggable root, in a native drag
\* (drag-start, then exactly one drag-end), during which no pointer or mouse
\* event is delivered.

\* What the step adds to the record of the gesture in progress: whether some
\* instance's dragging flag was set, whether the shared selection changed.
Track(g) ==
  [g EXCEPT
     !.dragSet = @ \/ \E p \in Pills : isDragging'[p] /\ ~isDragging[p],
     !.toggled = @ \/ selectedField' # selectedField]

GPointerDown(i, target, t) ==
  /\ gesture.phase # "drag"
  /\ PointerDown(i, target, t)
  /\ gesture' = Track([phase |-> "down", pill |-> i, target |-> target,
                       startSel |-> selectedField, dragSet |-> FALSE,
                       dragDone |-> FALSE, toggled |-> FALSE])

GMouseDown(i) ==
  /\ gesture.phase = "down" /\ gesture.pill = i /\ gesture.target = "button"
  /\ MouseDown(i)
  /\ gesture' = Track(gesture)

GClick(i, target) ==
  /\ gesture.phase = "down" /\ gesture.pill = i /\ gesture.target = target
  /\ Click(i, target)
  /\ gesture' = Track([gesture EXCEPT !.phase = "over"])

GDragStart(i) ==
  /\ gesture.phase = "down" /\ gesture.pill = i /\ gesture.target = "pill"
  /\ DragStart(i)
  /\ gesture' = Track([gesture EXCEPT !.phase = "drag"])

GDragEnd(i, accepted) ==
  /\ gesture.phase = "drag" /\ gesture.pill = i
  /\ DragEnd(i, accepted)
  /\ gesture' = Track([gesture EXCEPT !.phase = "over", !.dragDone = TRUE])

GMouseEnter(i) ==
  /\ gesture.phase # "drag"
  /\ MouseEnter(i)
  /\ gesture' = Track(gesture)

GMouseLeave(i) ==
  /\ gesture.phase # "drag"
  /\ MouseLeave(i)
  /\ gesture' = Track(gesture)

\* Unmounting the pressed or dragged instance ends the press or the drag
\* without a click or a drag-end reaching its handlers.
GUnmount(i) ==
  /\ Unmount(i)
  /\ gesture' = Track(IF gesture.pill = i
                             /\ gesture.phase \in {"down", "drag"}
                          THEN [gesture EXCEPT !.phase = "over"]
                          ELSE gesture)

GMount(i) ==
  /\ Mount(i)
  /\ gesture' = Track(gesture)

GestureNext ==
  \/ \E i \in Pills, target \in Targets, t \in ReportedPointerTypes :
       GPointerDown(i, target, t)
  \/ \E i \in Pills : GMouseDown(i)
  \/ \E i \in Pills, target \in Targets : GClick(i, target)
  \/ \E i \in Pills : GDragStart(i)
  \/ \E i \in Pills, accepted \in BOOLEAN : GDragEnd(i, accepted)
  \/ \E i \in Pills : GMouseEnter(i)
  \/ \E i \in Pills : GMouseLeave(i)
  \/ \E i \in Pills : GUnmount(i)
  \/ \E i \in Pills : GMount(i)

GestureSpec == Init /\ [][GestureNext]_vars

\* The platform delivers the drag-end of every drag-start.
FairGestureSpec ==
  /\ GestureSpec
  /\ \A i \in Pills : WF_vars(\E accepted \in BOOLEAN : GDragEnd(i, accepted))

----------------------------------------------------------------------------
\* PayloadSpec: one instance, rendering any field descriptor.

PayloadInit ==
  /\ fields \in [{"A"} -> DetectedField]
  /\ mounted = [p \in Pills |-> p = "A"]
  /\ InitView
  /\ gesture = NoGesture

PayloadNext ==
  \/ \E target \in Targets, t \in ReportedPointerTypes :
       PointerDown("A", target, t) /\ UNCHANGED gesture
  \/ MouseDown("A") /\ UNCHANGED gesture
  \/ \E target \in Targets : Click("A", target) /\ UNCHANGED gesture
  \/ DragStart("A") /\ UNCHANGED gesture
  \/ \E accepted \in BOOLEAN : DragEnd("A", accepted) /\ UNCHANGED gesture
  \/ MouseEnter("A") /\ UNCHANGED gesture
  \/ MouseLeave("A") /\ UNCHANGED gesture
  \/ Unmount("A") /\ UNCHANGED gesture
  \/ Mount("A") /\ UNCHANGED gesture

PayloadSpec == PayloadInit /\ [][PayloadNext]_vars

----------------------------------------------------------------------------
\* ListSpec: as Spec, but the two list entries may carry the same name (a
\* field list that breaks the uniqueness of names), with any types.

ListInit ==
  /\ \E ty \in [Pills -> FieldType], nameB \in {PillName["A"], PillName["B"]} :
       fields = [p \in Pills |->
                   [name |-> IF p = "B" THEN nameB ELSE PillName[p],
                    type |-> ty[p]]]
  /\ mounted = [p \in Pills |-> TRUE]
  /\ InitView
  /\ gesture = NoGesture

ListSpec == ListInit /\ [][Next]_vars

----------------------------------------------------------------------------
\* The properties.

\* C1: a pointer-down of kind touch on a pill followed by a click on it
\* clears the shared selection if the selected field's name is the pill's,
\* and otherwise makes the pill's field the shared selection.
C1_TouchTapToggles ==
  [][\A i \in Pills :
       (lastDown[i] = "touch" /\ Click(i, "pill")) =>
         selectedField' =
           IF selectedField # NoField /\ selectedField.name = fields[i].name
             THEN NoField
             ELSE fields[i]]_vars

C1_Witness ==
  \E i \in Pills :
    /\ lastEvent = Event("click", i, "pill")
    /\ lastDown[i] = "touch"
    /\ selectedField = fields[i]

\* C2: a click on a pill whose last pointer-down was of kind mouse, pen or
\* unrecognized, or that had no pointer-down since its mount, leaves the
\* shared selection as it was.
C2_NonTouchClickKeepsSelection ==
  [][\A i \in Pills :
       (lastDown[i] # "touch" /\ Click(i, "pill")) =>
         selectedField' = selectedField]_vars

C2_Witness ==
  \E i \in Pills :
    /\ lastEvent = Event("click", i, "pill")
    /\ lastDown[i] = "pen"
    /\ selectedField # NoField

\* C3: after a pointer-down reporting type t the recorded kind is t for
\* mouse, pen and touch and unknown for any other value; every reported
\* value is accepted, and a click after an unrecognized one changes no
\* selection.
C3_PointerKindNormalized ==
  /\ [](\A i \in Pills :
          /\ lastPointerTypeRef[i] \in PointerKind
          /\ lastDown[i] # "none" =>
               lastPointerTypeRef[i] =
                 IF lastDown[i] \in {"mouse", "pen", "touch"}
                   THEN lastDown[i]
                   ELSE "unknown"
          /\ mounted[i] =>
               \A t \in ReportedPointerTypes :
                 ENABLED PointerDown(i, "pill", t))
  /\ [][\A i \in Pills :
          (lastDown[i] \notin {"none", "mouse", "pen", "touch"}
             /\ Click(i, "pill")) =>
            selectedField' = selectedField]_vars

C3_Witness ==
  \E i \in Pills :
    /\ lastEvent = Event("click", i, "pill")
    /\ lastDown[i] = ""
    /\ lastPointerTypeRef[i] = "unknown"
    /\ selectedField # NoField

\* C4: drag-start on the pill of any field puts a payload under the JSON
\* media type that deserializes to exactly that field's name and type, sets
\* the allowed effect to copy and sets dragging.
C4_DragStartPublishesField ==
  \A i \in DOMAIN fields :
    lastEvent = Event("dragstart", i, "pill") =>
      /\ dataTransfer.format = "application/json"
      /\ JSONParse(dataTransfer.data) = fields[i]
      /\ dataTransfer.effectAllowed = "copy"
      /\ isDragging[i]

C4_Witness ==
  /\ lastEvent = Event("dragstart", "A", "pill")
  /\ \E k \in 1..Len(fields["A"].name) : fields["A"].name[k] = "\""
  /\ JSONParse(dataTransfer.data) = fields["A"]
  /\ isDragging["A"]

\* C5: drag-end sets dragging to false whether or not the drop was accepted,
\* and, the platform delivering the drag-end of every drag-start, dragging
\* set is always followed by dragging cleared.
C5_DragCleanup ==
  /\ [][\A i \in Pills, accepted \in BOOLEAN :
          DragEnd(i, accepted) => ~isDragging'[i]]_vars
  /\ \A i \in Pills : isDragging[i] ~> ~isDragging[i]

C5_Witness ==
  \E i \in Pills :
    /\ lastEvent = Event("dragend", i, "pill")
    /\ gesture.dragSet /\ gesture.dragDone
    /\ ~isDragging[i]

C7_ToggleVisibility ==
  \A i \in Pills :
    /\ ToggleRendered(i) <=>
         (isHovered[i] /\ fields[i].type \in {"nominal", "ordinal"})
    /\ (ENABLED Click(i, "button")) <=>
         (isHovered[i] /\ fields[i].type \in {"nominal", "ordinal"})

C7_Witness ==
  \E i, j \in Pills :
    /\ ToggleRendered(i)
    /\ isHovered[j] /\ fields[j].type = "temporal" /\ ~ToggleRendered(j)

\* C8: the toggle makes a nominal field ordinal and an ordinal field
\* nominal, changes no other field, and applied twice gives back the
\* original type.
C8_ToggleFlipsNominalOrdinal ==
  /\ [][\A i \in Pills :
          Click(i, "button") =>
            /\ fields'[i].name = fields[i].name
            /\ fields'[i].type =
                 IF fields[i].type = "nominal" THEN "ordinal" ELSE "nominal"
            /\ \A j \in Pills \ {i} : fields'[j] = fields[j]]_vars
  /\ [](\A i \in Pills :
          canToggle(i) =>
            toggleFieldType(ButtonOnClick(i), fields[i].name) = fields)

C8_Witness ==
  \E i \in Pills :
    /\ lastEvent = Event("click", i, "button")
    /\ fields[i].type = "ordinal"

\* C9: clicking the type toggle leaves the shared selection and every
\* dragging flag as they were, also right after a touch pointer-down and
\* for a selected field; the pill's own click handler does not run.
C9_ToggleKeepsSelectionAndDrag ==
  [][\A i \in Pills :
       Click(i, "button") =>
         /\ selectedField' = selectedField
         /\ isDragging' = isDragging
         /\ ~ReachesRoot("click", "button")]_vars

C9_Witness ==
  \E i \in Pills :
    /\ lastEvent = Event("click", i, "button")
    /\ lastDown[i] = "touch" /\ lastPointerTypeRef[i] = "touch"
    /\ isSelected(i)

\* C10: a pointer press on the toggle control does not run the pill's
\* pointer-down handler: the recorded pointer kind is what it was before.
C10_TogglePressKeepsPointerKind ==
  [][\A i \in Pills, t \in ReportedPointerTypes :
       PointerDown(i, "button", t) =>
         lastPointerTypeRef'[i] = lastPointerTypeRef[i]]_vars

\* C11: at most one field name is selected across the instances; an
\* instance shows as selected exactly when the shared selection is not empty
\* and carries the instance's name, whatever the types, so instances of one
\* name are selected together; a touch tap that selects a field leaves every
\* instance of another name unselected.
C11_SelectionSingularByName ==
  /\ [](/\ Cardinality({fields[i].name : i \in {p \in Pills : isSelected(p)}})
            <= 1
        /\ \A i \in Pills :
             (BackgroundColor(i) = "var(--color-accent-glow)") <=>
               (selectedField # NoField
                  /\ selectedField.name = fields[i].name)
        /\ \A i, j \in Pills :
             fields[i].name = fields[j].name =>
               (isSelected(i) <=> isSelected(j)))
  /\ [][\A i \in Pills :
          (lastDown[i] = "touch" /\ ~isSelected(i) /\ Click(i, "pill")) =>
            /\ selectedField'.name = fields[i].name
            /\ \A j \in Pills :
                 fields[j].name # fields[i].name =>
                   BackgroundColor(j)' # "var(--color-accent-glow)"]_vars

C11_Witness ==
  /\ fields["A"].name = fields["B"].name
  /\ fields["A"].type # fields["B"].type
  /\ lastEvent = Event("click", "A", "pill")
  /\ BackgroundColor("A") = "var(--color-accent-glow)"
  /\ BackgroundColor("B") = "var(--color-accent-glow)"

\* C12: pointer-enter sets hovered and pointer-leave clears it, from any
\* state; neither changes the shared selection, a dragging flag, a recorded
\* pointer kind or a field's type.
C12_HoverTransitions ==
  [][\A i \in Pills :
       /\ MouseEnter(i) => isHovered'[i]
       /\ MouseLeave(i) => ~isHovered'[i]
       /\ (MouseEnter(i) \/ MouseLeave(i)) =>
            /\ selectedField' = selectedField
            /\ isDragging' = isDragging
            /\ lastPointerTypeRef' = lastPointerTypeRef
            /\ fields' = fields]_vars

C12_Witness ==
  \E i \in Pills :
    /\ lastEvent = Event("mouseleave", i, "pill")
    /\ ~isHovered[i]
    /\ isDragging[i]
    /\ lastPointerTypeRef[i] = "touch"
    /\ selectedField # NoField

\* C13: a newly mounted instance has hovered false, dragging false and the
\* recorded pointer kind unknown; nothing of an unmounted instance's view
\* state is kept, whatever it was at the unmount.
C13_ViewStateResetsOnMount ==
  /\ [][\A i \in Pills :
          /\ Mount(i) =>
               /\ ~isHovered'[i] /\ ~isDragging'[i]
               /\ lastPointerTypeRef'[i] = "unknown"
          /\ (Unmount(i) /\ (isDragging[i] \/ lastPointerTypeRef[i] = "touch"
                               \/ isHovered[i])) =>
               (ENABLED (Mount(i) /\ ~isHovered'[i] /\ ~isDragging'[i]
                           /\ lastPointerTypeRef'[i] = "unknown"))']_vars
  /\ [](\A i \in Pills :
          lastEvent = Event("mount", i, "pill") =>
            /\ ~isHovered[i] /\ ~isDragging[i]
            /\ lastPointerTypeRef[i] = "unknown")

C13_Witness ==
  \E i \in Pills :
    /\ lastEvent = Event("mount", i, "pill")
    /\ mounted[i]
    /\ ~isHovered[i] /\ ~isDragging[i]
    /\ lastPointerTypeRef[i] = "unknown"

\* C14: exactly one of the selected, hovered and default stylings applies to
\* a pill: the selected one if it is selected, else the hovered one if it is
\* hovered, else the default one.
Stylings ==
  [selected |-> <<"var(--color-accent-glow)", "var(--color-accent)">>,
   hovered  |-> <<"var(--color-bg-tertiary)", "var(--color-border-hover)">>,
   default  |-> <<"var(--color-bg-elevated)", "var(--color-border)">>]

C14_StylingPrecedence ==
  \A i \in Pills :
    LET applied == {st \in DOMAIN Stylings :
                      Stylings[st] = <<BackgroundColor(i), BorderColor(i)>>}
    IN  applied = {IF selectedField # NoField
                        /\ selectedField.name = fields[i].name
                     THEN "selected"
                     ELSE IF isHovered[i] THEN "hovered" ELSE "default"}

C14_Witness ==
  \E i \in Pills :
    /\ isSelected(i) /\ isHovered[i]
    /\ BackgroundColor(i) = "var(--color-accent-glow)"
    /\ BorderColor(i) = "var(--color-accent)"

\* C15: the colour and the label lookup are defined for each of the four
\* field types, the labels being Q, N, O and T, so every pill, before and
\* after any toggle, renders a defined colour and label.
C15_TypeLookupTotal ==
  /\ \A i \in Pills : Color(i) # "undefined" /\ Label(i) # "undefined"
  /\ FieldType \subseteq DOMAIN TYPE_COLORS
  /\ FieldType \subseteq DOMAIN TYPE_LABELS
  /\ TYPE_LABELS["quantitative"] = "Q" /\ TYPE_LABELS["nominal"] = "N"
  /\ TYPE_LABELS["ordinal"] = "O" /\ TYPE_LABELS["temporal"] = "T"
  /\ \A i \in Pills : fields[i].type \in FieldType

C15_Witness ==
  \E i, j \in Pills :
    /\ lastEvent = Event("click", i, "button")
    /\ Label(i) = "O" /\ Color(i) = "var(--color-ordinal)"
    /\ Label(j) = "T" /\ Color(j) = "var(--color-temporal)"

\* C16: a click leaves the recorded pointer kind as it is, so every click on
\* a pill whose last pointer-down was a touch flips whether its field is
\* selected.
C16_ClickReadsPointerKind ==
  [][\A i \in Pills :
       /\ \A target \in Targets :
            Click(i, target) => lastPointerTypeRef' = lastPointerTypeRef
       /\ (lastDown[i] = "touch" /\ Click(i, "pill")) =>
            /\ isSelected(i)' <=> ~isSelected(i)
            /\ lastDown'[i] = "touch"]_vars

C16_Witness ==
  \E i \in Pills :
    /\ lastEvent = Event("click", i, "pill")
    /\ lastDown[i] = "touch" /\ lastPointerTypeRef[i] = "touch"
    /\ selectedField = NoField

\* C17: a touch click on an instance decides from the shared selection as it
\* is at the click: with another instance's field selected, the click makes
\* the instance's own field the selection, never an empty one.
C17_SelectionComparedAtClick ==
  [][\A i, j \in Pills :
       (/\ fields[i].name # fields[j].name
        /\ selectedField # NoField /\ selectedField.name = fields[j].name
        /\ lastDown[i] = "touch"
        /\ Click(i, "pill")) =>
         (selectedField' # NoField /\ selectedField' = fields[i])]_vars

C17_Witness ==
  \E i, j \in Pills :
    /\ i # j
    /\ lastEvent = Event("click", i, "pill")
    /\ lastDown[i] = "touch" /\ lastDown[j] = "touch"
    /\ selectedField = fields[i]

\* C18: drag-start and drag-end change nothing but the dragging flag of
\* their instance (and the event's DataTransfer): the field list, the shared
\* selection, the recorded pointer kinds and the hover flags stay.
C18_DragPublishesReferenceOnly ==
  [][\A i \in Pills :
       (/\ lastEvent'.pill = i
        /\ lastEvent'.type \in {"dragstart", "dragend"}) =>
         /\ fields' = fields
         /\ selectedField' = selectedField
         /\ lastPointerTypeRef' = lastPointerTypeRef
         /\ isHovered' = isHovered
         /\ mounted' = mounted
         /\ \A j \in Pills \ {i} : isDragging'[j] = isDragging[j]]_vars

C18_Witness ==
  \E i \in Pills :
    /\ lastEvent = Event("dragend", i, "pill")
    /\ ~isDragging[i]
    /\ selectedField # NoField
    /\ lastPointerTypeRef[i] = "touch"

\* C19: a quantitative or temporal field never changes type, a nominal or
\* ordinal field stays nominal or ordinal, so whether a field can show the
\* toggle never changes; only a click on the toggle changes a type.
C19_TypeClassInvariant ==
  [][/\ \A i \in Pills :
          /\ fields'[i].name = fields[i].name
          /\ fields[i].type \in {"quantitative", "temporal"} =>
               fields'[i].type = fields[i].type
          /\ fields[i].type \in {"nominal", "ordinal"} =>
               fields'[i].type \in {"nominal", "ordinal"}
          /\ canToggle(i)' <=> canToggle(i)
     /\ fields' # fields =>
          (lastEvent'.type = "click" /\ lastEvent'.target = "button")]_vars

C19_Witness ==
  \E i, j \in Pills :
    /\ lastEvent = Event("click", i, "button")
    /\ fields[i].type = "nominal"
    /\ fields[j].type = "quantitative"

\* C20: pointer-down, hover and drag events on one instance never change
\* another instance's recorded pointer kind, hover flag or dragging flag; a
\* click on an instance whose own last pointer-down was a mouse one, or that
\* had none, changes no selection although another instance recorded touch.
C20_ViewStatePerInstance ==
  [][\A i, j \in Pills :
       i # j =>
         /\ (/\ lastEvent'.pill = i
             /\ lastEvent'.type \in {"pointerdown", "mouseenter",
                                     "mouseleave", "dragstart", "dragend"}) =>
              /\ lastPointerTypeRef'[j] = lastPointerTypeRef[j]
              /\ isHovered'[j] = isHovered[j]
              /\ isDragging'[j] = isDragging[j]
         /\ (/\ lastDown[i] = "touch"
             /\ lastDown[j] \in {"none", "mouse"}
             /\ lastEvent' = Event("click", j, "pill")) =>
              selectedField' = selectedField]_vars

C20_Witness ==
  \E i, j \in Pills :
    /\ i # j
    /\ lastEvent = Event("click", j, "pill")
    /\ lastDown[i] = "touch" /\ lastPointerTypeRef[i] = "touch"
    /\ lastDown[j] = "none" /\ lastPointerTypeRef[j] = "unknown"
    /\ selectedField = fields[i]

====
